---- MODULE Spec2Model ----
(***************************************************************************)
(* Event-driven backtesting engine (backtest.py, engine_components.py,     *)
(* event_system.py, statistics.py, strategies/*.py).                       *)
(*                                                                         *)
(* Money is held in fixed point, one unit = 1/1000 of a currency unit, so  *)
(* that the two-decimal formatting of the trade log is a real rounding.    *)
(* Time is held in ticks: TicksPerSecond ticks make one second (strftime   *)
(* drops what is below a second) and TicksPerDay ticks make one day        *)
(* (Timestamp.floor('D')).                                                 *)
(***************************************************************************)
EXTENDS Integers, Sequences, FiniteSets, TLC

\* ------------------------------------------------------------------ bounds
MaxBars == 3            \* rows of the price series
MaxSignals == 2         \* signals a strategy may emit in one call
MaxTotalSignals == 3    \* signals a strategy may emit over a run

\* the inputs the model draws
Starts == {0, 1}        \* timestamp of the first row of the series
Steps == {1, 2}         \* spacing of the (dense) series
SlipDraws == {0, 1}     \* slippage amounts drawn, in money units

\* ------------------------------------------------------- program constants
Scale == 1000           \* money units per currency unit
Cent == 10              \* money units per 0.01
TicksPerSecond == 2
TicksPerDay == 4
LotSize == 10           \* engine_components.py:52
DefaultCapital == 100000000   \* 100000.0, backtest.py:17
RateDen == 1000         \* commission_rate is held in 1/1000
SlipDen == 10000        \* slippage_pct is held in 1/10000
NaN == -2000000000      \* the missing value of a pandas column
NoTime == -1            \* the None of stream_next_bar

Symbol == "RELIANCE.NS"                     \* backtest.py:16
ClosePattern == <<100000, 110000, 105000>>  \* closes 100, 110, 105
CommissionRates == {0, 1}                   \* 0 and 0.001 (backtest.py:19)
SlippageRates == {0, 5}                     \* 0 and 0.0005 (backtest.py:20)
SignalTypes == {"LONG", "SHORT", "EXIT"}    \* event_system.py:26
StrategyKinds == {"BuyAndHold", "Generic"}

\* ------------------------------------------------------------------ state
VARIABLES
    data,            \* DataHandler.data: the price series, rows [timestamp, Close]
    cursor,          \* rows already yielded by DataHandler._data_generator
    queue,           \* event_system.event_queue
    pc,              \* position of main(): next_bar, drain, on_signal, log_fill, stats, done
    timestamp,       \* main's local timestamp
    bar_data,        \* main's local bar_data
    event,           \* main's local event while its second handler is pending
    cash,            \* Portfolio.cash
    positions,       \* Portfolio.positions (a dict: symbol -> quantity)
    initial_capital, \* Portfolio.initial_capital
    commission_rate, \* ExecutionHandler.commission_rate, in 1/RateDen
    slippage_pct,    \* ExecutionHandler.slippage_pct, in 1/SlipDen
    strategy,        \* which Strategy implementation main() was configured with
    bought,          \* BuyAndHoldStrategy.bought
    trade_log,       \* rows of logs/<run>_trades.log
    signal_log,      \* rows of logs/<run>_signals.log
    equity_curve,    \* Statistics.equity_curve (one row per row of data)
    report,          \* result of Statistics.generate_report
    \* instrumentation (not program state)
    pushed,          \* events put on the queue so far
    popped,          \* events taken from the queue, in order
    fills,           \* FillEvents handled by Portfolio.on_fill, in order
    emitted,         \* signals the strategy has emitted so far
    stats_runs,      \* times Statistics was constructed and run
    returned,        \* rows (or NoBar for None) returned by stream_next_bar, in order
    run,             \* which run (1 or 2) the variables above belong to
    other            \* the per-run variables of the other run of the process, if any

vars == <<data, cursor, queue, pc, timestamp, bar_data, event, cash, positions,
          initial_capital, commission_rate, slippage_pct, strategy, bought,
          trade_log, signal_log, equity_curve, report,
          pushed, popped, fills, emitted, stats_runs, returned, run, other>>

\* ----------------------------------------------------------------- events
\* Every event is one record shape; the fields a variant does not have are
\* "" or 0.  origin and run are instrumentation: the row number whose Market
\* event started the cascade the event belongs to, and the run that
\* constructed the event.
Ev(type, symbol, ts, signal_type, quantity, direction, fill_price, commission, origin) ==
    [type |-> type, symbol |-> symbol, timestamp |-> ts, signal_type |-> signal_type,
     quantity |-> quantity, direction |-> direction, fill_price |-> fill_price,
     commission |-> commission, origin |-> origin, run |-> run]

MarketEvent(origin) == Ev("MARKET", "", 0, "", 0, "", 0, 0, origin)

SignalEvent(symbol, ts, signal_type, origin) ==
    Ev("SIGNAL", symbol, ts, signal_type, 0, "", 0, 0, origin)

OrderEvent(symbol, quantity, direction, origin) ==
    Ev("ORDER", symbol, 0, "", quantity, direction, 0, 0, origin)

FillEvent(ts, symbol, direction, quantity, fill_price, commission, origin) ==
    Ev("FILL", symbol, ts, "", quantity, direction, fill_price, commission, origin)

NoEvent ==
    [type |-> "NONE", symbol |-> "", timestamp |-> 0, signal_type |-> "",
     quantity |-> 0, direction |-> "", fill_price |-> 0, commission |-> 0,
     origin |-> 0, run |-> 0]

\* no other run in the process
NoOther == [pc |-> "none"]

NoBar == [timestamp |-> NoTime, Close |-> 0]

\* ------------------------------------------------------------- DataHandler
\* The price series: a dense series of n rows starting at t0 with spacing
\* step, closes taken from ClosePattern in turn.
Series(n, t0, step) ==
    [i \in 1..n |-> [timestamp |-> t0 + (i - 1) * step,
                     Close |-> ClosePattern[((i - 1) % Len(ClosePattern)) + 1]]]

\* next(self._data_generator) raises StopIteration
ExhaustedEarly(d, c) == c >= Len(d) - 1
Exhausted(d, c) == c >= Len(d)

\* ------------------------------------------------------------- event queue
\* event_queue.empty()
QueueEmptyOneLeft(q) == IF Len(q) = 1 THEN Head(q).type = "ORDER" ELSE q = <<>>
QueueEmptyEarly(q) == IF q = <<>> THEN TRUE ELSE Head(q).type = "ORDER"
QueueEmpty(q) == q = <<>>

\* ---------------------------------------------------------------- strategy
\* BuyAndHoldStrategy.calculate_signals: the signals it puts on the queue
BuyAndHoldSignalsAlways(b, ts, origin) == <<SignalEvent(Symbol, ts, "LONG", origin)>>
BuyAndHoldSignals(b, ts, origin) ==
    IF ~b THEN <<SignalEvent(Symbol, ts, "LONG", origin)>> ELSE <<>>

\* BaseStrategy.calculate_signals, any implementation: zero or more signals
\* for the strategy's symbol, stamped with the event timestamp.
SignalTypeSeqs(n) == UNION {[1..k -> SignalTypes] : k \in 0..n}

GenericSignals(types, ts, origin) ==
    [i \in 1..Len(types) |-> SignalEvent(Symbol, ts, types[i], origin)]

Min(a, b) == IF a < b THEN a ELSE b

\* --------------------------------------------------------------- portfolio
\* Portfolio.on_signal: the orders it puts on the queue
OnSignalNoCheck(pos, sig) ==
    IF sig.signal_type = "LONG"
    THEN <<OrderEvent(sig.symbol, LotSize, "BUY", sig.origin)>>
    ELSE IF sig.signal_type = "EXIT" /\ sig.symbol \in DOMAIN pos
    THEN <<OrderEvent(sig.symbol, pos[sig.symbol], "SELL", sig.origin)>>
    ELSE <<>>
OnSignalShortSells(pos, sig) ==
    IF sig.signal_type = "LONG" /\ sig.symbol \notin DOMAIN pos
    THEN <<OrderEvent(sig.symbol, LotSize, "BUY", sig.origin)>>
    ELSE IF sig.signal_type = "EXIT" /\ sig.symbol \in DOMAIN pos
    THEN <<OrderEvent(sig.symbol, pos[sig.symbol], "SELL", sig.origin)>>
    ELSE IF sig.signal_type = "SHORT"
    THEN <<OrderEvent(sig.symbol, LotSize, "SELL", sig.origin)>>
    ELSE <<>>
OnSignalOrders(pos, sig) ==
    IF sig.signal_type = "LONG" /\ sig.symbol \notin DOMAIN pos
    THEN <<OrderEvent(sig.symbol, LotSize, "BUY", sig.origin)>>
    ELSE IF sig.signal_type = "EXIT" /\ sig.symbol \in DOMAIN pos
    THEN <<OrderEvent(sig.symbol, pos[sig.symbol], "SELL", sig.origin)>>
    ELSE <<>>

\* Portfolio.on_fill: the new cash
OnFillCashSellAddsCommission(c, fill) ==
    IF fill.direction = "BUY"
    THEN c - ((fill.fill_price * fill.quantity) + fill.commission)
    ELSE IF fill.direction = "SELL"
    THEN c + ((fill.fill_price * fill.quantity) + fill.commission)
    ELSE c
OnFillCash(c, fill) ==
    IF fill.direction = "BUY"
    THEN c - ((fill.fill_price * fill.quantity) + fill.commission)
    ELSE IF fill.direction = "SELL"
    THEN c + ((fill.fill_price * fill.quantity) - fill.commission)
    ELSE c

\* dict.get(symbol, 0)
Get(pos, sym) == IF sym \in DOMAIN pos THEN pos[sym] ELSE 0

\* Portfolio.on_fill: the new positions
OnFillPositionsSellSubtracts(pos, fill) ==
    IF fill.direction = "BUY"
    THEN [s \in DOMAIN pos \cup {fill.symbol} |->
             IF s = fill.symbol THEN Get(pos, s) + fill.quantity ELSE pos[s]]
    ELSE IF fill.direction = "SELL"
    THEN [s \in DOMAIN pos \cup {fill.symbol} |->
             IF s = fill.symbol THEN Get(pos, s) - fill.quantity ELSE pos[s]]
    ELSE pos
OnFillPositions(pos, fill) ==
    IF fill.direction = "BUY"
    THEN [s \in DOMAIN pos \cup {fill.symbol} |->
             IF s = fill.symbol THEN Get(pos, s) + fill.quantity ELSE pos[s]]
    ELSE IF fill.direction = "SELL"
    THEN [s \in DOMAIN pos \ {fill.symbol} |-> pos[s]]
    ELSE pos

\* --------------------------------------------------------------- execution
\* random.random() scaled: the slippage amounts close * slippage_pct * U,
\* U in [0, 1), that the model draws.
Slippages(close, pct) ==
    {s \in SlipDraws : s = 0 \/ s * SlipDen < close * pct}

\* ExecutionHandler.execute_order: the FillEvent it puts on the queue; s is
\* the magnitude of the slippage drawn.
FillOfLot(order, bar, s, rate) ==
    LET slippage == IF order.direction = "BUY" THEN s ELSE -s
        fill_price == bar.Close + slippage
        commission == (fill_price * order.quantity * rate) \div RateDen
    IN FillEvent(bar.timestamp, order.symbol, order.direction, LotSize,
                 fill_price, commission, order.origin)
FillOf(order, bar, s, rate) ==
    LET slippage == IF order.direction = "BUY" THEN s ELSE -s
        fill_price == bar.Close + slippage
        commission == (fill_price * order.quantity * rate) \div RateDen
    IN FillEvent(bar.timestamp, order.symbol, order.direction, order.quantity,
                 fill_price, commission, order.origin)

\* ----------------------------------------------------------------- logging
\* strftime('%Y-%m-%d %H:%M:%S'): what is below a second is dropped
Strftime(t) == (t \div TicksPerSecond) * TicksPerSecond

\* format(x, '.2f') of a non-negative amount: rounded to the nearest cent
\* (no amount the model reaches lies halfway between two cents)
Fmt2(x) == ((x + (Cent \div 2)) \div Cent) * Cent

\* LoggingHandler.on_fill: the row appended to the trade log
TradeRow(fill) ==
    [Execution_Timestamp |-> Strftime(fill.timestamp), Symbol |-> fill.symbol,
     Action |-> fill.direction, Quantity |-> fill.quantity,
     Price |-> Fmt2(fill.fill_price), Commission |-> Fmt2(fill.commission), PL |-> 0]

\* LoggingHandler.on_signal: the row appended to the signal log
SignalRow(sig) ==
    [Signal_Timestamp |-> Strftime(sig.timestamp), Symbol |-> sig.symbol,
     Signal_Type |-> sig.signal_type]

\* -------------------------------------------------------------- statistics
\* Timestamp.floor('D')
FloorDay(t) == (t \div TicksPerDay) * TicksPerDay

\* arithmetic of pandas columns: a missing value stays missing
Mul(a, b) == IF a = NaN \/ b = NaN THEN NaN ELSE a * b
Add(a, b) == IF a = NaN \/ b = NaN THEN NaN ELSE a + b

\* Statistics._calculate_equity_curve, the loop over the rows of the trade
\* log.  st = [Cash, Holdings_Qty, has_qty, holdings]: the two columns the loop
\* writes, whether the column Holdings_Qty exists yet, and the local holdings.
\* An assignment through curve.loc[mask, 'Holdings_Qty'] to a column that does
\* not exist creates it, missing wherever the mask is false.
RECURSIVE ApplyTrades(_, _, _, _)
ApplyTrades(trades, k, st, d) ==
    IF k > Len(trades) THEN st
    ELSE LET trade == trades[k]
             trade_time == FloorDay(trade.Execution_Timestamp)
             trade_cost == (trade.Price * trade.Quantity) + trade.Commission
             mask == [i \in 1..Len(d) |-> d[i].timestamp >= trade_time]
             holdings == IF trade.Action = "BUY" THEN st.holdings + trade.Quantity
                         ELSE IF trade.Action = "SELL" THEN st.holdings - trade.Quantity
                         ELSE st.holdings
             Cash == [i \in 1..Len(d) |->
                         IF ~mask[i] THEN st.Cash[i]
                         ELSE IF trade.Action = "BUY" THEN st.Cash[i] - trade_cost
                         ELSE IF trade.Action = "SELL" THEN st.Cash[i] + trade_cost
                         ELSE st.Cash[i]]
             Qty == [i \in 1..Len(d) |->
                         IF mask[i] THEN holdings
                         ELSE IF st.has_qty THEN st.Holdings_Qty[i] ELSE NaN]
         IN ApplyTrades(trades, k + 1,
                        [Cash |-> Cash, Holdings_Qty |-> Qty, has_qty |-> TRUE,
                         holdings |-> holdings], d)

\* Statistics._calculate_equity_curve
CalculateEquityCurveCashOnly(trades, d, capital) ==
    LET st0 == [Cash |-> [i \in 1..Len(d) |-> capital],
                Holdings_Qty |-> [i \in 1..Len(d) |-> NaN],
                has_qty |-> FALSE, holdings |-> 0]
        st == ApplyTrades(trades, 1, st0, d)
        Qty == IF st.has_qty THEN st.Holdings_Qty ELSE [i \in 1..Len(d) |-> 0]
    IN [i \in 1..Len(d) |->
           [Cash |-> st.Cash[i],
            Holdings_Qty |-> Qty[i],
            Holdings_Value |-> Mul(Qty[i], d[i].Close),
            Total_Equity |-> st.Cash[i]]]
CalculateEquityCurve(trades, d, capital) ==
    LET st0 == [Cash |-> [i \in 1..Len(d) |-> capital],
                Holdings_Qty |-> [i \in 1..Len(d) |-> NaN],
                has_qty |-> FALSE, holdings |-> 0]
        st == ApplyTrades(trades, 1, st0, d)
        Qty == IF st.has_qty THEN st.Holdings_Qty ELSE [i \in 1..Len(d) |-> 0]
    IN [i \in 1..Len(d) |->
           [Cash |-> st.Cash[i],
            Holdings_Qty |-> Qty[i],
            Holdings_Value |-> Mul(Qty[i], d[i].Close),
            Total_Equity |-> Add(st.Cash[i], Mul(Qty[i], d[i].Close))]]

\* Series.cummax() at row i: the largest value among eq[1..i], missing
\* values skipped (missing when there is none)
CumMax(eq, i) ==
    LET seen == {eq[s] : s \in 1..i} \ {NaN}
    IN IF seen = {} THEN NaN
       ELSE CHOOSE m \in seen : \A v \in seen : v <= m

\* Series.idxmin(): the first row holding the least value of dd, missing
\* values skipped; 0 when there is none
IdxMin(dd, n) ==
    LET valued == {i \in 1..n : dd[i] # NaN}
        least == {i \in valued : \A j \in valued : dd[i] <= dd[j]}
    IN IF valued = {} THEN 0
       ELSE CHOOSE i \in least : \A j \in least : i <= j

\* the running maximum and the drawdown of every row of eq
RollMax(eq) == [i \in 1..Len(eq) |-> IF eq[i] = NaN THEN NaN ELSE CumMax(eq, i)]

Drawdown(eq) == [i \in 1..Len(eq) |-> IF eq[i] = NaN THEN NaN ELSE eq[i] - CumMax(eq, i)]

ValueError == [status |-> "ValueError", value |-> 0, pct |-> [num |-> 0, den |-> 1]]

\* what calculate_max_drawdown returns when idxmin is row k of index d (0: no
\* row).  The percentage is held as the fraction num/den.  idxmin raises
\* ValueError when there is no value; roll_max[label] is a Series when the
\* label occurs twice in the index, and its truth value raises ValueError.
MaxDrawdownAtGlobalMax(eq, d, k) ==
    IF k = 0 THEN ValueError
    ELSE LET peak == CumMax(eq, Len(eq))
         IN [status |-> "ok", value |-> eq[k] - peak,
             pct |-> IF peak # 0 THEN [num |-> eq[k] - peak, den |-> peak]
                     ELSE [num |-> 0, den |-> 1]]
MaxDrawdownAt(eq, d, k) ==
    IF k = 0 THEN ValueError
    ELSE IF \E j \in 1..Len(d) : j # k /\ d[j].timestamp = d[k].timestamp
    THEN ValueError
    ELSE [status |-> "ok", value |-> Drawdown(eq)[k],
          pct |-> IF RollMax(eq)[k] # 0
                  THEN [num |-> Drawdown(eq)[k], den |-> RollMax(eq)[k]]
                  ELSE [num |-> 0, den |-> 1]]

\* Statistics.calculate_max_drawdown over the Total_Equity column eq with
\* index d: the set of its one outcome
CalculateMaxDrawdown(eq, d) ==
    {MaxDrawdownAt(eq, d, k) : k \in {IdxMin(Drawdown(eq), Len(eq))}}

\* the column Total_Equity of a curve
TotalEquity(curve) == [i \in 1..Len(curve) |-> curve[i].Total_Equity]

\* a return eq[i] / eq[i-1] - 1 held as the fraction num/den
Return(prev, cur) == [num |-> cur - prev, den |-> prev]

\* Statistics.__init__: equity_curve['Total_Equity'].pct_change().dropna();
\* the first row and every row with a missing operand (or 0/0) is dropped
RECURSIVE PctChangeDropna(_, _)
PctChangeDropna(eq, i) ==
    IF i <= 1 THEN <<>>
    ELSE LET rest == PctChangeDropna(eq, i - 1)
         IN IF eq[i] = NaN \/ eq[i - 1] = NaN \/ (eq[i] = 0 /\ eq[i - 1] = 0)
            THEN rest
            ELSE Append(rest, Return(eq[i - 1], eq[i]))

Returns(curve) == PctChangeDropna(TotalEquity(curve), Len(curve))

\* a/b = c/d for b, d > 0, by continued fractions (no product is formed)
RECURSIVE EqPosFrac(_, _, _, _)
EqPosFrac(a, b, c, d) ==
    \E ra \in {a % b}, rc \in {c % d} :
        /\ a \div b = c \div d
        /\ IF ra = 0 \/ rc = 0 THEN ra = rc ELSE EqPosFrac(b, ra, d, rc)

IsInf(r) == r.den = 0

IsNegative(r) == (r.num < 0 /\ r.den >= 0) \/ (r.num > 0 /\ r.den < 0)

\* two finite returns are the same float: the same rational
SameReturn(r, q) ==
    EqPosFrac(IF r.den < 0 THEN -r.num ELSE r.num, IF r.den < 0 THEN -r.den ELSE r.den,
              IF q.den < 0 THEN -q.num ELSE q.num, IF q.den < 0 THEN -q.den ELSE q.den)

\* Series.std() (ddof = 1) of the returns rs, as the outcomes the floating
\* point evaluation can give: missing for fewer than two values or an
\* infinite one; exactly 0 for two equal values or values all 0; for three or
\* more equal non-zero values the rounded mean may differ from the values, so
\* the result is 0 or a tiny positive number; positive otherwise.
StdOutcomes(rs) ==
    IF Len(rs) <= 1 \/ \E i \in 1..Len(rs) : IsInf(rs[i]) THEN {"nan"}
    ELSE IF \A i \in 1..Len(rs) : SameReturn(rs[i], rs[1])
    THEN IF Len(rs) = 2 \/ rs[1].num = 0 THEN {"0.0"} ELSE {"0.0", "positive"}
    ELSE {"positive"}

\* the ratio computed from a deviation: x / nan is nan
RatioOver(std) == IF std = "nan" THEN "nan" ELSE "number"

\* Statistics.calculate_sharpe_ratio: nan == 0 is False, so a missing
\* deviation falls through to the division
CalculateSharpeRatio(rs) ==
    IF Len(rs) = 0 THEN {"0.0"}
    ELSE {IF std = "0.0" THEN "0.0" ELSE RatioOver(std) : std \in StdOutcomes(rs)}

\* Statistics.calculate_sortino_ratio
CalculateSortinoRatio(rs) ==
    IF Len(rs) = 0 THEN {"0.0"}
    ELSE LET downside_returns == SelectSeq(rs, IsNegative)
         IN IF Len(downside_returns) = 0 THEN {"0.0"}
            ELSE {IF std = "0.0" THEN "0.0" ELSE RatioOver(std) :
                     std \in StdOutcomes(downside_returns)}

NoReport ==
    [status |-> "none", final_equity |-> 0, total_pnl |-> 0,
     max_dd_val |-> 0, max_dd_pct |-> [num |-> 0, den |-> 1],
     sharpe |-> "none", sortino |-> "none",
     total_closed_trades |-> 0, profit_factor |-> "none", pct_profitable |-> 0]

\* Statistics.generate_report with the values max_dd, sharpe and sortino
\* returned by calculate_max_drawdown and the two ratio methods: .iloc[-1] of
\* an empty curve raises IndexError; an exception of calculate_max_drawdown
\* propagates
GenerateReport(curve, capital, max_dd, sharpe, sortino) ==
    IF Len(curve) = 0
    THEN [NoReport EXCEPT !.status = "IndexError"]
    ELSE LET final_equity == curve[Len(curve)].Total_Equity
             gross_profit == 0
             gross_loss == 0
             winning_trades == 0
             losing_trades == 0
             profit_factor == IF gross_loss = 0 THEN "inf" ELSE "number"
             total_closed_trades == winning_trades + losing_trades
             pct_profitable == IF total_closed_trades > 0
                               THEN (winning_trades * 100) \div total_closed_trades
                               ELSE 0
         IN IF max_dd.status # "ok"
            THEN [NoReport EXCEPT !.status = max_dd.status]
            ELSE [status |-> "ok",
                  final_equity |-> final_equity,
                  total_pnl |-> Add(final_equity, -capital),
                  max_dd_val |-> max_dd.value,
                  max_dd_pct |-> max_dd.pct,
                  sharpe |-> sharpe,
                  sortino |-> sortino,
                  total_closed_trades |-> total_closed_trades,
                  profit_factor |-> profit_factor,
                  pct_profitable |-> pct_profitable]

\* ------------------------------------------------------------------- Init
\* main() up to the event loop: the components are constructed, the log files
\* are truncated to their headers, the module-level queue is empty.
Init ==
    /\ \E n \in 0..MaxBars, t0 \in Starts, step \in Steps :
          data = Series(n, t0, step)
    /\ cursor = 0
    /\ queue = <<>>
    /\ pc = "next_bar"
    /\ timestamp = NoTime
    /\ bar_data = NoBar
    /\ event = NoEvent
    /\ initial_capital = DefaultCapital
    /\ cash = initial_capital
    /\ positions = <<>>
    /\ commission_rate \in CommissionRates
    /\ slippage_pct \in SlippageRates
    /\ strategy \in StrategyKinds
    /\ bought = FALSE
    /\ trade_log = <<>>
    /\ signal_log = <<>>
    /\ equity_curve = <<>>
    /\ report = NoReport
    /\ pushed = 0
    /\ popped = <<>>
    /\ fills = <<>>
    /\ emitted = 0
    /\ stats_runs = 0
    /\ returned = <<>>
    /\ run = 1
    /\ other = NoOther

\* ---------------------------------------------------------------- actions
\* DataHandler.stream_next_bar returning a row (backtest.py:33)
StreamNextBarPutsTwice ==
    /\ pc = "next_bar"
    /\ ~Exhausted(data, cursor)
    /\ cursor' = cursor + 1
    /\ timestamp' = data[cursor + 1].timestamp
    /\ bar_data' = data[cursor + 1]
    /\ queue' = queue \o <<MarketEvent(cursor + 1), MarketEvent(cursor + 1)>>
    /\ pushed' = pushed + 2
    /\ returned' = Append(returned, data[cursor + 1])
    /\ pc' = "drain"
    /\ UNCHANGED <<data, event, cash, positions, initial_capital, commission_rate,
                   slippage_pct, strategy, bought, trade_log, signal_log,
                   equity_curve, report, popped, fills, emitted, stats_runs,
                   run, other>>
StreamNextBar ==
    /\ pc = "next_bar"
    /\ ~Exhausted(data, cursor)
    /\ cursor' = cursor + 1
    /\ timestamp' = data[cursor + 1].timestamp
    /\ bar_data' = data[cursor + 1]
    /\ queue' = Append(queue, MarketEvent(cursor + 1))
    /\ pushed' = pushed + 1
    /\ returned' = Append(returned, data[cursor + 1])
    /\ pc' = "drain"
    /\ UNCHANGED <<data, event, cash, positions, initial_capital, commission_rate,
                   slippage_pct, strategy, bought, trade_log, signal_log,
                   equity_curve, report, popped, fills, emitted, stats_runs,
                   run, other>>

\* DataHandler.stream_next_bar returning (None, None); main breaks
EndOfStream ==
    /\ pc = "next_bar"
    /\ Exhausted(data, cursor)
    /\ timestamp' = NoTime
    /\ bar_data' = NoBar
    /\ returned' = Append(returned, NoBar)
    /\ pc' = "stats"
    /\ UNCHANGED <<data, cursor, queue, event, cash, positions, initial_capital,
                   commission_rate, slippage_pct, strategy, bought, trade_log,
                   signal_log, equity_curve, report, pushed, popped, fills,
                   emitted, stats_runs,
                   run, other>>

\* the inner while finds the queue empty (backtest.py:36)
QueueDrained ==
    /\ pc = "drain"
    /\ QueueEmpty(queue)
    /\ pc' = "next_bar"
    /\ UNCHANGED <<data, cursor, queue, timestamp, bar_data, event, cash, positions,
                   initial_capital, commission_rate, slippage_pct, strategy, bought,
                   trade_log, signal_log, equity_curve, report, pushed, popped,
                   fills, emitted, stats_runs, returned, run, other>>

\* event_queue.get(False) returns an event of this type (backtest.py:38-43)
Popping(type) ==
    /\ pc = "drain"
    /\ ~QueueEmpty(queue)
    /\ Head(queue).type = type

\* MARKET -> BuyAndHoldStrategy.calculate_signals(timestamp, bar_data)
CalculateSignalsBuyAndHold ==
    /\ Popping("MARKET")
    /\ strategy = "BuyAndHold"
    /\ LET signals == BuyAndHoldSignals(bought, timestamp, Head(queue).origin)
       IN /\ queue' = Tail(queue) \o signals
          /\ pushed' = pushed + Len(signals)
          /\ emitted' = emitted + Len(signals)
          /\ bought' = IF ~bought THEN TRUE ELSE bought
    /\ popped' = Append(popped, Head(queue))
    /\ UNCHANGED <<data, cursor, pc, timestamp, bar_data, event, cash, positions,
                   initial_capital, commission_rate, slippage_pct, strategy,
                   trade_log, signal_log, equity_curve, report, fills, stats_runs,
                   returned, run, other>>

\* MARKET -> calculate_signals of any other Strategy
CalculateSignalsGeneric ==
    /\ Popping("MARKET")
    /\ strategy = "Generic"
    /\ \E types \in SignalTypeSeqs(Min(MaxSignals, MaxTotalSignals - emitted)) :
          LET signals == GenericSignals(types, timestamp, Head(queue).origin)
          IN /\ queue' = Tail(queue) \o signals
             /\ pushed' = pushed + Len(signals)
             /\ emitted' = emitted + Len(signals)
    /\ popped' = Append(popped, Head(queue))
    /\ UNCHANGED <<data, cursor, pc, timestamp, bar_data, event, cash, positions,
                   initial_capital, commission_rate, slippage_pct, strategy, bought,
                   trade_log, signal_log, equity_curve, report, fills, stats_runs,
                   returned, run, other>>

\* SIGNAL -> logger.on_signal(event) (backtest.py:46)
LoggerOnSignal ==
    /\ Popping("SIGNAL")
    /\ event' = Head(queue)
    /\ queue' = Tail(queue)
    /\ popped' = Append(popped, Head(queue))
    /\ signal_log' = Append(signal_log, SignalRow(Head(queue)))
    /\ pc' = "on_signal"
    /\ UNCHANGED <<data, cursor, timestamp, bar_data, cash, positions,
                   initial_capital, commission_rate, slippage_pct, strategy, bought,
                   trade_log, equity_curve, report, pushed, fills, emitted,
                   stats_runs, returned, run, other>>

\* SIGNAL -> portfolio.on_signal(event) (backtest.py:47)
PortfolioOnSignalPutsFirst ==
    /\ pc = "on_signal"
    /\ LET orders == OnSignalOrders(positions, event)
       IN /\ queue' = orders \o queue
          /\ pushed' = pushed + Len(orders)
    /\ event' = NoEvent
    /\ pc' = "drain"
    /\ UNCHANGED <<data, cursor, timestamp, bar_data, cash, positions,
                   initial_capital, commission_rate, slippage_pct, strategy, bought,
                   trade_log, signal_log, equity_curve, report, popped, fills,
                   emitted, stats_runs, returned, run, other>>
PortfolioOnSignal ==
    /\ pc = "on_signal"
    /\ LET orders == OnSignalOrders(positions, event)
       IN /\ queue' = queue \o orders
          /\ pushed' = pushed + Len(orders)
    /\ event' = NoEvent
    /\ pc' = "drain"
    /\ UNCHANGED <<data, cursor, timestamp, bar_data, cash, positions,
                   initial_capital, commission_rate, slippage_pct, strategy, bought,
                   trade_log, signal_log, equity_curve, report, popped, fills,
                   emitted, stats_runs, returned, run, other>>

\* ORDER -> execution_handler.execute_order(event, bar_data) (backtest.py:49)
ExecuteOrder ==
    /\ Popping("ORDER")
    /\ \E s \in Slippages(bar_data.Close, slippage_pct) :
          queue' = Append(Tail(queue), FillOf(Head(queue), bar_data, s, commission_rate))
    /\ pushed' = pushed + 1
    /\ popped' = Append(popped, Head(queue))
    /\ UNCHANGED <<data, cursor, pc, timestamp, bar_data, event, cash, positions,
                   initial_capital, commission_rate, slippage_pct, strategy, bought,
                   trade_log, signal_log, equity_curve, report, fills, emitted,
                   stats_runs, returned, run, other>>

\* FILL -> portfolio.on_fill(event) (backtest.py:51)
PortfolioOnFill ==
    /\ Popping("FILL")
    /\ event' = Head(queue)
    /\ queue' = Tail(queue)
    /\ popped' = Append(popped, Head(queue))
    /\ cash' = OnFillCash(cash, Head(queue))
    /\ positions' = OnFillPositions(positions, Head(queue))
    /\ fills' = Append(fills, Head(queue))
    /\ pc' = "log_fill"
    /\ UNCHANGED <<data, cursor, timestamp, bar_data, initial_capital,
                   commission_rate, slippage_pct, strategy, bought, trade_log,
                   signal_log, equity_curve, report, pushed, emitted, stats_runs,
                   returned, run, other>>

\* FILL -> logger.on_fill(event) (backtest.py:52)
LoggerOnFillTruncates ==
    /\ pc = "log_fill"
    /\ trade_log' = <<TradeRow(event)>>
    /\ event' = NoEvent
    /\ pc' = "drain"
    /\ UNCHANGED <<data, cursor, queue, timestamp, bar_data, cash, positions,
                   initial_capital, commission_rate, slippage_pct, strategy, bought,
                   signal_log, equity_curve, report, pushed, popped, fills,
                   emitted, stats_runs, returned, run, other>>
LoggerOnFill ==
    /\ pc = "log_fill"
    /\ trade_log' = Append(trade_log, TradeRow(event))
    /\ event' = NoEvent
    /\ pc' = "drain"
    /\ UNCHANGED <<data, cursor, queue, timestamp, bar_data, cash, positions,
                   initial_capital, commission_rate, slippage_pct, strategy, bought,
                   signal_log, equity_curve, report, pushed, popped, fills,
                   emitted, stats_runs, returned, run, other>>

\* Statistics(...) and stats.generate_report() (backtest.py:57-62)
Statistics ==
    /\ pc = "stats"
    /\ \E curve \in {CalculateEquityCurve(trade_log, data, initial_capital)} :
          /\ equity_curve' = curve
          /\ \E max_dd \in CalculateMaxDrawdown(TotalEquity(curve), data),
                sharpe \in CalculateSharpeRatio(Returns(curve)),
                sortino \in CalculateSortinoRatio(Returns(curve)) :
                report' = GenerateReport(curve, initial_capital, max_dd, sharpe, sortino)
    /\ stats_runs' = stats_runs + 1
    /\ pc' = "done"
    /\ UNCHANGED <<data, cursor, queue, timestamp, bar_data, event, cash, positions,
                   initial_capital, commission_rate, slippage_pct, strategy, bought,
                   trade_log, signal_log, pushed, popped, fills, emitted,
                   returned, run, other>>

Next ==
    \/ StreamNextBar
    \/ EndOfStream
    \/ QueueDrained
    \/ CalculateSignalsBuyAndHold
    \/ CalculateSignalsGeneric
    \/ LoggerOnSignal
    \/ PortfolioOnSignal
    \/ ExecuteOrder
    \/ PortfolioOnFill
    \/ LoggerOnFill
    \/ Statistics

Spec == Init /\ [][Next]_vars

\* main() is one thread that runs to completion: every step that is enabled
\* is eventually taken.  Whether the run halts does not depend on prices,
\* costs or the spacing of the series, so these are fixed here.
InitFair ==
    /\ Init
    /\ commission_rate = 0
    /\ slippage_pct = 0
    /\ \E n \in 0..MaxBars : data = Series(n, 0, 1)

FairSpec == InitFair /\ [][Next]_vars /\ WF_vars(Next)

\* the runs of main from InitFair, with no assumption on progress: the order
\* in which events are queued and handled does not depend on prices, costs or
\* the spacing of the series either
FixedSpec == InitFair /\ [][Next]_vars

TypeOK ==
    /\ pc \in {"next_bar", "drain", "on_signal", "log_fill", "stats", "done",
              "max_drawdown", "on_fill"}
    /\ run \in {1, 2}
    /\ cursor \in 0..Len(data)
    /\ DOMAIN positions \subseteq {Symbol, "TCS.NS"}

\* ======================================================================
\* Properties
\* ======================================================================
Last(q) == q[Len(q)]

IsPrefix(a, b) == Len(a) <= Len(b) /\ SubSeq(b, 1, Len(a)) = a

\* the events taken from the queue whose handling has finished
Handled == IF event = NoEvent THEN Len(popped) ELSE Len(popped) - 1

\* C1: the event queue is empty at every call of stream_next_bar: whenever
\* main is about to ask the DataHandler for the next bar, every event pushed
\* so far has been popped and handled, and every event still queued or in
\* hand belongs to the cascade of the bar read last.
QueueDrainedBeforeAdvance ==
    /\ pc = "next_bar" => /\ queue = <<>>
                          /\ event = NoEvent
                          /\ Handled = pushed
    /\ \A i \in 1..Len(queue) : queue[i].origin = cursor
    /\ event # NoEvent => event.origin = cursor

QueueDrainedBeforeAdvanceWitness ==
    /\ pc = "next_bar"
    /\ cursor >= 1
    /\ ~Exhausted(data, cursor)
    /\ Len(fills) >= 1
    /\ Last(fills).origin = cursor

\* the price of fill lies within the slippage range of bar's close
PricedFrom(fill, bar) ==
    LET slip == IF fill.direction = "BUY" THEN fill.fill_price - bar.Close
                ELSE bar.Close - fill.fill_price
    IN /\ slip >= 0
       /\ slip = 0 \/ slip * SlipDen < bar.Close * slippage_pct

FillsInSystem ==
    {queue[i] : i \in {j \in 1..Len(queue) : queue[j].type = "FILL"}}
        \cup {fills[i] : i \in 1..Len(fills)}

\* C2: a Fill of bar t's cascade is priced from bar t's close only: its price
\* is that close plus (BUY) or minus (SELL) a slippage below close *
\* slippage_pct, so it is exactly that close when slippage_pct is 0.
NoLookAhead ==
    \A f \in FillsInSystem :
        /\ f.origin \in 1..Len(data)
        /\ PricedFrom(f, data[f.origin])
        /\ slippage_pct = 0 => f.fill_price = data[f.origin].Close

NoLookAheadWitness ==
    /\ pc = "done"
    /\ Len(data) = 3
    /\ \E i \in 1..Len(fills) : /\ fills[i].origin = 2
                                /\ fills[i].fill_price # data[2].Close

\* what the fills fs add to cash, by the rule of the data model
RECURSIVE NetCashFlow(_)
NetCashFlow(fs) ==
    IF fs = <<>> THEN 0
    ELSE LET f == Last(fs)
             gross == f.fill_price * f.quantity
         IN NetCashFlow(SubSeq(fs, 1, Len(fs) - 1))
              + (IF f.direction = "BUY" THEN -(gross + f.commission)
                 ELSE gross - f.commission)

\* C3: cash is the initial capital minus price*quantity + commission of every
\* BUY fill handled plus price*quantity - commission of every SELL fill handled.
CashConservation == cash = initial_capital + NetCashFlow(fills)

CashConservationWitness ==
    /\ pc = "done"
    /\ \E i, j \in 1..Len(fills) : /\ fills[i].direction = "BUY"
                                   /\ fills[j].direction = "SELL"
                                   /\ fills[j].commission > 0

\* a signal that contradicts the current position
InvalidTransition(sig) ==
    \/ sig.signal_type = "LONG" /\ sig.symbol \in DOMAIN positions
    \/ sig.signal_type = "EXIT" /\ sig.symbol \notin DOMAIN positions

\* C4: a LONG signal for a symbol with an open position and an EXIT signal
\* for a symbol without one push no Order and leave cash and positions
\* unchanged, and the signal is in the signal log when the Portfolio sees it.
InvalidSignalIsNoOp ==
    /\ [][(Popping("SIGNAL") /\ InvalidTransition(Head(queue)))
            => /\ signal_log' = Append(signal_log, SignalRow(Head(queue)))
               /\ queue' = Tail(queue)
               /\ cash' = cash /\ positions' = positions]_vars
    /\ [][(pc = "on_signal" /\ InvalidTransition(event))
            => /\ queue' = queue /\ pushed' = pushed
               /\ cash' = cash /\ positions' = positions
               /\ signal_log' = signal_log]_vars
    /\ [](pc = "on_signal" => /\ signal_log # <<>>
                              /\ Last(signal_log) = SignalRow(event))

InvalidSignalIsNoOpWitness ==
    /\ pc = "on_signal"
    /\ event.signal_type = "LONG"
    /\ event.symbol \in DOMAIN positions
    /\ Len(signal_log) >= 2
    /\ signal_log[1].Signal_Type = "EXIT"

\* events of one type taken from the queue so far
CountPopped(type) == Cardinality({i \in 1..Len(popped) : popped[i].type = type})

\* C5: with the buy-and-hold strategy and N >= 1 bars the run produces exactly
\* one Signal (LONG, on the first bar), one BUY Order and one Fill, and from
\* that Fill on the position is the lot size until the run ends.
NoRepeatBuy ==
    strategy = "BuyAndHold" =>
        /\ CountPopped("SIGNAL") <= 1 /\ CountPopped("ORDER") <= 1
        /\ CountPopped("FILL") <= 1
        /\ \A i \in 1..Len(popped) :
              /\ popped[i].type = "SIGNAL" =>
                    popped[i].signal_type = "LONG" /\ popped[i].origin = 1
              /\ popped[i].type = "ORDER" =>
                    popped[i].direction = "BUY" /\ popped[i].quantity = LotSize
        /\ Len(fills) = 1 => positions = (Symbol :> LotSize)
        /\ (pc \in {"stats", "done"} /\ Len(data) >= 1) =>
              /\ emitted = 1
              /\ CountPopped("SIGNAL") = 1 /\ CountPopped("ORDER") = 1
              /\ CountPopped("FILL") = 1 /\ Len(fills) = 1

NoRepeatBuyWitness ==
    /\ strategy = "BuyAndHold"
    /\ pc = "done"
    /\ Len(data) = 3
    /\ Len(fills) = 1

\* the inputs of the end-to-end scenario
ScenarioInput ==
    /\ Len(data) = 3
    /\ [i \in 1..3 |-> data[i].Close] = <<100 * Scale, 110 * Scale, 105 * Scale>>
    /\ initial_capital = 100000 * Scale
    /\ commission_rate = 0
    /\ slippage_pct = 0
    /\ strategy = "BuyAndHold"

\* C6: closes [100, 110, 105], capital 100000, no commission, no slippage,
\* buy-and-hold: the run ends with exactly one BUY fill of 10 units at 100
\* stamped with the first bar's timestamp, cash 99000, total equity 100050 at
\* the last bar and total P/L 50.
EndToEndScenario ==
    (ScenarioInput /\ pc = "done") =>
        /\ Len(fills) = 1
        /\ fills[1].direction = "BUY"
        /\ fills[1].quantity = 10
        /\ fills[1].fill_price = 100 * Scale
        /\ fills[1].timestamp = data[1].timestamp
        /\ cash = 99000 * Scale
        /\ equity_curve[3].Total_Equity = 100050 * Scale
        /\ report.status = "ok"
        /\ report.total_pnl = 50 * Scale

EndToEndScenarioWitness ==
    /\ ScenarioInput
    /\ pc = "done"
    /\ Len(trade_log) = 1

\* C7: main's loop halts; it halts only when the DataHandler is exhausted,
\* with the queue empty and every event pushed handled; Statistics is
\* constructed and run exactly once, after the loop has halted.
Termination ==
    /\ <>(pc = "done")
    /\ [](pc \in {"stats", "done"} => /\ cursor = Len(data)
                                      /\ queue = <<>>
                                      /\ event = NoEvent
                                      /\ Handled = pushed)
    /\ [](stats_runs = IF pc = "done" THEN 1 ELSE 0)

TerminationWitness ==
    /\ pc = "done"
    /\ stats_runs = 1
    /\ Len(data) = 3
    /\ Last(popped).type = "FILL"
    /\ Last(popped).origin = 3

\* C8: execute_order puts exactly one Fill on the queue for the Order it
\* handles, with the Order's symbol, direction and quantity and the timestamp
\* of the bar of the current iteration.
OrderYieldsOneFill ==
    [][Popping("ORDER") =>
         /\ Len(queue') = Len(queue)
         /\ SubSeq(queue', 1, Len(queue) - 1) = Tail(queue)
         /\ pushed' = pushed + 1
         /\ Last(queue').type = "FILL"
         /\ Last(queue').symbol = Head(queue).symbol
         /\ Last(queue').direction = Head(queue).direction
         /\ Last(queue').quantity = Head(queue).quantity
         /\ Last(queue').timestamp = timestamp
         /\ Last(queue').timestamp = data[cursor].timestamp]_vars

OrderYieldsOneFillWitness ==
    /\ pc = "drain"
    /\ queue # <<>>
    /\ Last(queue).type = "FILL"
    /\ Last(queue).direction = "SELL"
    /\ Last(queue).quantity = 2 * LotSize
    /\ Last(popped).type = "ORDER"

\* row is what the trade log holds for fill
RowOfFill(row, fill) ==
    /\ row.Symbol = fill.symbol
    /\ row.Action = fill.direction
    /\ row.Quantity = fill.quantity
    /\ row.Execution_Timestamp <= fill.timestamp
    /\ fill.timestamp < row.Execution_Timestamp + TicksPerSecond
    /\ 2 * (row.Price - fill.fill_price) <= Cent
    /\ 2 * (fill.fill_price - row.Price) <= Cent

\* C9: the trade log holds one row per Fill handled, in the order handled,
\* with non-decreasing execution timestamps, and no step changes, removes or
\* reorders a row already written.
LedgerAppendOnly ==
    /\ [](/\ Len(trade_log) = Len(fills) - (IF pc = "log_fill" THEN 1 ELSE 0)
          /\ \A i \in 1..Len(trade_log) : RowOfFill(trade_log[i], fills[i])
          /\ \A i, j \in 1..Len(trade_log) :
                i <= j => trade_log[i].Execution_Timestamp
                            <= trade_log[j].Execution_Timestamp)
    /\ [][IsPrefix(trade_log, trade_log')]_vars

LedgerAppendOnlyWitness ==
    /\ pc = "done"
    /\ Len(trade_log) = 3
    /\ trade_log[1].Execution_Timestamp < trade_log[3].Execution_Timestamp

\* net quantity of the trades whose floored execution time is <= t
RECURSIVE NetQuantity(_, _)
NetQuantity(trades, t) ==
    IF trades = <<>> THEN 0
    ELSE LET trade == Last(trades)
             q == IF FloorDay(trade.Execution_Timestamp) > t THEN 0
                  ELSE IF trade.Action = "BUY" THEN trade.Quantity
                  ELSE -trade.Quantity
         IN NetQuantity(SubSeq(trades, 1, Len(trades) - 1), t) + q

NoTradeUpTo(trades, t) ==
    \A k \in 1..Len(trades) : FloorDay(trades[k].Execution_Timestamp) > t

\* C10: the reconstructed curve is a step function starting from holdings 0:
\* at every timestamp t the holdings quantity is the BUY quantities minus the
\* SELL quantities of the trades whose floored execution time is <= t, so it
\* is 0 and total equity is the initial capital before the first trade, and
\* total equity is a defined number, cash + holdings * close, throughout.
EquityCurveIsStepFunction ==
    pc = "done" =>
        \A i \in 1..Len(data) :
            /\ equity_curve[i].Holdings_Qty = NetQuantity(trade_log, data[i].timestamp)
            /\ equity_curve[i].Total_Equity # NaN
            /\ equity_curve[i].Total_Equity
                 = equity_curve[i].Cash + equity_curve[i].Holdings_Qty * data[i].Close
            /\ NoTradeUpTo(trade_log, data[i].timestamp) =>
                  /\ equity_curve[i].Holdings_Qty = 0
                  /\ equity_curve[i].Total_Equity = initial_capital

\* ======================================================================
\* Statistics.calculate_max_drawdown as a function of the equity series
\* ======================================================================
MaxPoints == 4

\* total equities a series is drawn from, in currency units
EquityLevels == {-1000, 0, 99000, 100000, 100050, 101000}

\* the equity curve whose Total_Equity column is eq (all in cash)
CurveOf(eq) ==
    [i \in 1..Len(eq) |->
        [Cash |-> eq[i], Holdings_Qty |-> 0, Holdings_Value |-> 0,
         Total_Equity |-> eq[i]]]

\* every component of a run constructed with strategy s, the driver at
\* position p over series d, the Statistics object holding curve
Constructed(p, d, curve, s) ==
    /\ data = d
    /\ cursor = 0
    /\ queue = <<>>
    /\ pc = p
    /\ timestamp = NoTime
    /\ bar_data = NoBar
    /\ event = NoEvent
    /\ initial_capital = DefaultCapital
    /\ cash = initial_capital
    /\ positions = <<>>
    /\ commission_rate = 0
    /\ slippage_pct = 0
    /\ strategy = s
    /\ bought = FALSE
    /\ trade_log = <<>>
    /\ signal_log = <<>>
    /\ equity_curve = curve
    /\ report = NoReport
    /\ pushed = 0
    /\ popped = <<>>
    /\ fills = <<>>
    /\ emitted = 0
    /\ stats_runs = 0
    /\ returned = <<>>
    /\ run = 1

\* a Statistics object over any equity series of 1..MaxPoints numbers with a
\* strictly increasing index
InitDrawdown ==
    \E n \in 1..MaxPoints :
        \E eq \in [1..n -> {l * Scale : l \in EquityLevels}] :
            /\ Constructed("max_drawdown", Series(n, 0, 1), CurveOf(eq), "BuyAndHold")
            /\ other = NoOther

\* a call of Statistics.calculate_max_drawdown (statistics.py:54)
CalculateMaxDrawdownCall ==
    /\ pc = "max_drawdown"
    /\ \E max_dd \in CalculateMaxDrawdown(TotalEquity(equity_curve), data) :
          report' = [NoReport EXCEPT !.status = max_dd.status,
                                     !.max_dd_val = max_dd.value,
                                     !.max_dd_pct = max_dd.pct]
    /\ pc' = "done"
    /\ UNCHANGED <<data, cursor, queue, timestamp, bar_data, event, cash, positions,
                   initial_capital, commission_rate, slippage_pct, strategy, bought,
                   trade_log, signal_log, equity_curve, pushed, popped, fills,
                   emitted, stats_runs, returned, run, other>>

DrawdownSpec == InitDrawdown /\ [][CalculateMaxDrawdownCall]_vars

\* the largest of eq[1..t]
RunningMax(eq, t) ==
    CHOOSE m \in {eq[s] : s \in 1..t} : \A s \in 1..t : eq[s] <= m

DrawdownAt(eq, t) == eq[t] - RunningMax(eq, t)

DrawdownScenario == <<100000 * Scale, 100050 * Scale, 99000 * Scale, 101000 * Scale>>

\* C11: calculate_max_drawdown returns as value the least, over t, of
\* total_equity(t) minus the largest total equity up to t, and as percentage
\* that value over the running maximum at the first timestamp where the least
\* is attained (0 when that running maximum is 0); for the series
\* [100000, 100050, 99000, 101000] the value is -1050 and the percentage
\* -1050/100050.
MaxDrawdownIsLeastDrop ==
    pc = "done" =>
        LET eq == TotalEquity(equity_curve)
            T == 1..Len(eq)
            least == {t \in T : \A u \in T : DrawdownAt(eq, t) <= DrawdownAt(eq, u)}
            first == CHOOSE t \in least : \A u \in least : t <= u
        IN /\ report.status = "ok"
           /\ report.max_dd_val = DrawdownAt(eq, first)
           /\ \A t \in T : report.max_dd_val <= DrawdownAt(eq, t)
           /\ RunningMax(eq, first) # 0 =>
                 report.max_dd_pct = [num |-> report.max_dd_val,
                                      den |-> RunningMax(eq, first)]
           /\ RunningMax(eq, first) = 0 => report.max_dd_pct = [num |-> 0, den |-> 1]
           /\ eq = DrawdownScenario =>
                 /\ report.max_dd_val = -1050 * Scale
                 /\ report.max_dd_pct = [num |-> -1050 * Scale, den |-> 100050 * Scale]

MaxDrawdownIsLeastDropWitness ==
    /\ pc = "done"
    /\ TotalEquity(equity_curve) = DrawdownScenario
    /\ report.status = "ok"
    /\ report.max_dd_val = -1050 * Scale

\* ======================================================================
\* Risk ratios of a run
\* ======================================================================
\* the returns are all the same value (in particular there are none or one)
ConstantReturns(rs) == \A i \in 1..Len(rs) : SameReturn(rs[i], rs[1])

\* C12: whenever the returns of a finished run are empty or constant (a
\* single return, i.e. two valued bars, included), the report is produced and
\* both calculate_sharpe_ratio and calculate_sortino_ratio return exactly 0,
\* never a missing value.
DegenerateRatiosAreZero ==
    (pc = "done" /\ Len(data) >= 1 /\ ConstantReturns(Returns(equity_curve))) =>
        /\ report.status = "ok"
        /\ report.sharpe = "0.0"
        /\ report.sortino = "0.0"

\* ======================================================================
\* Closed trades of a ledger
\* ======================================================================
\* the closed trades of trades[k..]: a BUY opens (or adds to) the position at
\* its cost, a SELL while a position is held closes it and realises the
\* proceeds minus the cost; held and cost describe the position open before k
RECURSIVE ClosedTrades(_, _, _, _)
ClosedTrades(trades, k, held, cost) ==
    IF k > Len(trades)
    THEN [total |-> 0, winning |-> 0, gross_profit |-> 0, gross_loss |-> 0]
    ELSE LET trade == trades[k]
             amount == trade.Price * trade.Quantity
         IN IF trade.Action = "BUY"
            THEN ClosedTrades(trades, k + 1, held + trade.Quantity,
                              cost + amount + trade.Commission)
            ELSE IF held = 0
            THEN ClosedTrades(trades, k + 1, 0, 0)
            ELSE LET rest == ClosedTrades(trades, k + 1, 0, 0)
                     pl == amount - trade.Commission - cost
                 IN [total |-> rest.total + 1,
                     winning |-> rest.winning + (IF pl > 0 THEN 1 ELSE 0),
                     gross_profit |-> rest.gross_profit + (IF pl > 0 THEN pl ELSE 0),
                     gross_loss |-> rest.gross_loss + (IF pl < 0 THEN -pl ELSE 0)]

\* C13: the report's Total Closed Trades is the number of positions of the
\* ledger that were opened by a BUY and then closed by a SELL, Percent
\* Profitable is the winning closed trades over the closed trades times 100
\* (0 when there are none), and Profit Factor is infinite exactly when the
\* gross loss over the closed trades is 0; a BUY followed by a SELL at a
\* higher price is 1 closed trade, 100% profitable.
ClosedTradeStatsFollowLedger ==
    (pc = "done" /\ report.status = "ok") =>
        LET closed == ClosedTrades(trade_log, 1, 0, 0)
        IN /\ report.total_closed_trades = closed.total
           /\ report.pct_profitable
                = IF closed.total = 0 THEN 0
                  ELSE (closed.winning * 100) \div closed.total
           /\ report.profit_factor = "inf" <=> closed.gross_loss = 0

\* ======================================================================
\* Runs over any price series, well formed or not
\* ======================================================================
\* timestamps the rows of a loaded file may carry, in any order
TimestampDraws == {0, 1}

\* pd.read_csv keeps the rows of the file as they are: n rows whose index is
\* ts, closes taken from ClosePattern in turn
Loaded(ts) ==
    [i \in 1..Len(ts) |-> [timestamp |-> ts[i],
                           Close |-> ClosePattern[((i - 1) % Len(ClosePattern)) + 1]]]

\* DataHandler.__init__ and the rest of main's construction over any file
InitLoaded ==
    \E n \in 2..MaxBars, s \in StrategyKinds :
        \E ts \in [1..n -> TimestampDraws] :
            /\ Constructed("next_bar", Loaded(ts), <<>>, s)
            /\ other = NoOther

LoadedSpec == InitLoaded /\ [][Next]_vars

\* the index of d has a duplicate or non-increasing timestamp
Malformed(d) == \E i \in 1..(Len(d) - 1) : d[i + 1].timestamp <= d[i].timestamp

\* C14: a price series with a duplicate or non-increasing timestamp is
\* rejected when the DataHandler is constructed: the run does not start, no
\* bar is delivered, no event is pushed and neither the Portfolio nor the
\* ledgers change.
MalformedInputFailsFast ==
    Malformed(data) =>
        /\ cursor = 0
        /\ pushed = 0
        /\ queue = <<>>
        /\ cash = initial_capital
        /\ positions = <<>>
        /\ trade_log = <<>>
        /\ signal_log = <<>>

\* ======================================================================
\* The DataHandler called beyond the end of its series
\* ======================================================================
MaxFurtherCalls == 2

\* a call of DataHandler.stream_next_bar made after main has left its loop:
\* next() on the finished generator raises StopIteration again
StreamNextBarAfterEndPushes ==
    /\ pc \in {"stats", "done"}
    /\ Len(returned) < Len(data) + 1 + MaxFurtherCalls
    /\ returned' = Append(returned, NoBar)
    /\ queue' = Append(queue, MarketEvent(cursor))
    /\ pushed' = pushed + 1
    /\ UNCHANGED <<data, cursor, pc, timestamp, bar_data, event, cash, positions,
                   initial_capital, commission_rate, slippage_pct, strategy, bought,
                   trade_log, signal_log, equity_curve, report, popped, fills,
                   emitted, stats_runs, run, other>>
StreamNextBarAfterEnd ==
    /\ pc \in {"stats", "done"}
    /\ Len(returned) < Len(data) + 1 + MaxFurtherCalls
    /\ Exhausted(data, cursor)
    /\ returned' = Append(returned, NoBar)
    /\ UNCHANGED <<data, cursor, queue, pc, timestamp, bar_data, event, cash,
                   positions, initial_capital, commission_rate, slippage_pct,
                   strategy, bought, trade_log, signal_log, equity_curve, report,
                   pushed, popped, fills, emitted, stats_runs, run, other>>

FeedNext == Next \/ StreamNextBarAfterEnd

FeedSpec == InitFair /\ [][FeedNext]_vars

\* the Market events put on the queue so far
MarketEventsPushed ==
    Cardinality({i \in 1..Len(popped) : popped[i].type = "MARKET"})
        + Cardinality({i \in 1..Len(queue) : queue[i].type = "MARKET"})

\* C15: the calls of stream_next_bar return the rows of the series each once,
\* in series order with strictly increasing timestamps, one Market event
\* pushed per returned row; every call after the last row returns the
\* (None, None) sentinel and pushes nothing.
ReadOnceForward ==
    LET k == Min(Len(returned), Len(data))
    IN /\ cursor = k
       /\ SubSeq(returned, 1, k) = SubSeq(data, 1, k)
       /\ \A i, j \in 1..k : i < j => returned[i].timestamp < returned[j].timestamp
       /\ \A i \in (k + 1)..Len(returned) : returned[i] = NoBar
       /\ MarketEventsPushed = k

ReadOnceForwardWitness ==
    /\ Len(data) >= 2
    /\ Len(returned) >= Len(data) + 3
    /\ returned[Len(data)] = data[Len(data)]
    /\ Last(returned) = NoBar

\* ======================================================================
\* Two runs of main in one process
\* ======================================================================
MaxBarsTwoRuns == 2

\* the variables a run of main owns: its locals and its own components
Local ==
    [pc |-> pc, cursor |-> cursor, timestamp |-> timestamp, bar_data |-> bar_data,
     event |-> event, cash |-> cash, positions |-> positions, bought |-> bought,
     trade_log |-> trade_log, signal_log |-> signal_log,
     equity_curve |-> equity_curve, report |-> report, pushed |-> pushed,
     popped |-> popped, fills |-> fills, emitted |-> emitted,
     stats_runs |-> stats_runs, returned |-> returned]

\* a run of main that has constructed its components and not yet stepped
Fresh ==
    [pc |-> "next_bar", cursor |-> 0, timestamp |-> NoTime, bar_data |-> NoBar,
     event |-> NoEvent, cash |-> DefaultCapital, positions |-> <<>>, bought |-> FALSE,
     trade_log |-> <<>>, signal_log |-> <<>>,
     equity_curve |-> <<>>, report |-> NoReport, pushed |-> 0,
     popped |-> <<>>, fills |-> <<>>, emitted |-> 0,
     stats_runs |-> 0, returned |-> <<>>]

\* two runs of main as configured in backtest.py (BuyAndHoldStrategy) over
\* the same price file; both import the one event_queue of event_system
\* (event_system.py:59)
InitTwoRuns ==
    \E n \in 1..MaxBarsTwoRuns :
        /\ Constructed("next_bar", Series(n, 0, 1), <<>>, "BuyAndHold")
        /\ other = Fresh

\* the process stops stepping one run and steps the other: the runs exchange
\* their own variables, the queue stays
SwitchRun ==
    /\ other # NoOther
    /\ run' = 3 - run
    /\ other' = Local
    /\ pc' = other.pc
    /\ cursor' = other.cursor
    /\ timestamp' = other.timestamp
    /\ bar_data' = other.bar_data
    /\ event' = other.event
    /\ cash' = other.cash
    /\ positions' = other.positions
    /\ bought' = other.bought
    /\ trade_log' = other.trade_log
    /\ signal_log' = other.signal_log
    /\ equity_curve' = other.equity_curve
    /\ report' = other.report
    /\ pushed' = other.pushed
    /\ popped' = other.popped
    /\ fills' = other.fills
    /\ emitted' = other.emitted
    /\ stats_runs' = other.stats_runs
    /\ returned' = other.returned
    /\ UNCHANGED <<data, queue, initial_capital, commission_rate, slippage_pct,
                   strategy>>

TwoRunsNext ==
    \/ StreamNextBar
    \/ EndOfStream
    \/ QueueDrained
    \/ CalculateSignalsBuyAndHold
    \/ LoggerOnSignal
    \/ PortfolioOnSignal
    \/ ExecuteOrder
    \/ PortfolioOnFill
    \/ LoggerOnFill
    \/ Statistics
    \/ SwitchRun

TwoRunsSpec == InitTwoRuns /\ [][TwoRunsNext]_vars

\* C16: with two runs interleaved, every event a run's driver pops and
\* handles, and every Fill applied to a run's Portfolio and ledger, was
\* pushed by a component of that same run.
RunIsolation ==
    /\ \A i \in 1..Len(popped) : popped[i].run = run
    /\ \A i \in 1..Len(fills) : fills[i].run = run
    /\ other # NoOther =>
          /\ \A i \in 1..Len(other.popped) : other.popped[i].run = 3 - run
          /\ \A i \in 1..Len(other.fills) : other.fills[i].run = 3 - run

\* ======================================================================
\* Dispatch order
\* ======================================================================
\* position of an event type within one bar's cascade
Rank(type) ==
    CASE type = "MARKET" -> 1
      [] type = "SIGNAL" -> 2
      [] type = "ORDER" -> 3
      [] type = "FILL" -> 4

\* b was pushed no earlier than a: a later bar's cascade, or the same
\* cascade and no earlier stage
InCascadeOrder(a, b) ==
    \/ a.origin < b.origin
    \/ a.origin = b.origin /\ Rank(a.type) <= Rank(b.type)

\* a step that takes an event from the queue: it takes the head, and hands
\* it to the handler of its tag
PopsHead ==
    popped' # popped =>
        LET e == Head(queue)
        IN /\ pc = "drain" /\ event = NoEvent
           /\ popped' = Append(popped, e)
           /\ IsPrefix(Tail(queue), queue')
           /\ e.type = "MARKET" =>
                 /\ emitted' - emitted = Len(queue') - Len(Tail(queue))
                 /\ \A i \in (Len(queue))..Len(queue') : queue'[i].type = "SIGNAL"
                 /\ UNCHANGED <<signal_log, trade_log, cash, positions, fills>>
           /\ e.type = "SIGNAL" =>
                 /\ signal_log' = Append(signal_log, SignalRow(e))
                 /\ event' = e /\ pc' = "on_signal"
                 /\ queue' = Tail(queue)
                 /\ UNCHANGED <<trade_log, cash, positions, fills>>
           /\ e.type = "ORDER" =>
                 /\ Len(queue') = Len(queue)
                 /\ Last(queue').type = "FILL"
                 /\ UNCHANGED <<signal_log, trade_log, cash, positions, fills>>
           /\ e.type = "FILL" =>
                 /\ fills' = Append(fills, e)
                 /\ cash' = OnFillCash(cash, e)
                 /\ positions' = OnFillPositions(positions, e)
                 /\ event' = e /\ pc' = "log_fill"
                 /\ queue' = Tail(queue)
                 /\ UNCHANGED <<signal_log, trade_log>>

\* a step that takes no event only appends to the queue; the second handler
\* of a Signal is the Portfolio, that of a Fill is the trade ledger
PushesAtTail ==
    popped' = popped =>
        /\ IsPrefix(queue, queue')
        /\ pc = "on_signal" =>
              /\ queue' = queue \o OnSignalOrders(positions, event)
              /\ event' = NoEvent /\ pc' = "drain"
        /\ pc = "log_fill" =>
              /\ trade_log' = Append(trade_log, TradeRow(event))
              /\ event' = NoEvent /\ pc' = "drain"

\* C17: events are popped in the order they were pushed and dispatched by tag
\* (Market to the strategy, Signal to the signal log then the Portfolio, Order
\* to the execution handler, Fill to the Portfolio then the trade ledger); so
\* within a bar's cascade the Market event, then the Signals, then the
\* Orders, then the Fills are handled, one event at a time.
FifoDispatch ==
    /\ [][PopsHead /\ PushesAtTail]_vars
    /\ [](LET all == popped \o queue
          IN \A i \in 1..(Len(all) - 1) : InCascadeOrder(all[i], all[i + 1]))
    /\ [](event # NoEvent <=> pc \in {"on_signal", "log_fill"})
    /\ [](event # NoEvent => event = Last(popped))

FifoDispatchWitness ==
    /\ pc = "log_fill"
    /\ Len(popped) = 6
    /\ popped[1].type = "MARKET"
    /\ popped[2].type = "SIGNAL" /\ popped[3].type = "SIGNAL"
    /\ popped[4].type = "ORDER" /\ popped[5].type = "ORDER"
    /\ popped[6].type = "FILL"
    /\ queue # <<>>

\* ======================================================================
\* Strategy calls
\* ======================================================================
IsMarket(e) == e.type = "MARKET"

\* the calls of Strategy.calculate_signals so far: one per Market event taken
\* from the queue (backtest.py:43-44)
StrategyCalls == SelectSeq(popped, IsMarket)

\* a call of calculate_signals is made for the row the DataHandler returned
\* in this iteration, with that row's timestamp and data
CalledWithCurrentBar ==
    (popped' # popped /\ Head(queue).type = "MARKET") =>
        /\ cursor >= 1
        /\ Head(queue).origin = cursor
        /\ timestamp = data[cursor].timestamp
        /\ bar_data = data[cursor]
        /\ Last(returned) = data[cursor]
        /\ \A i \in Len(queue)..Len(queue') :
              queue'[i].type = "SIGNAL" /\ queue'[i].timestamp = data[cursor].timestamp

\* C18: calculate_signals is called once for each row of the series, in feed
\* order, with the timestamp and row returned by stream_next_bar in the same
\* iteration of main's loop, N times in a run over N rows: there is exactly
\* one Market event per delivered row.
OneStrategyCallPerBar ==
    /\ [][CalledWithCurrentBar]_vars
    /\ [](\A i \in 1..Len(StrategyCalls) : StrategyCalls[i].origin = i)
    /\ [](Len(StrategyCalls) \in {cursor - 1, cursor})
    /\ [](pc = "next_bar" => Len(StrategyCalls) = cursor)
    /\ [](pc \in {"stats", "done"} => Len(StrategyCalls) = Len(data))

OneStrategyCallPerBarWitness ==
    /\ pc = "done"
    /\ Len(data) = 3
    /\ Len(StrategyCalls) = 3
    /\ emitted >= 2

\* ======================================================================
\* Portfolio.on_fill over any sequence of fills
\* ======================================================================
MaxFills == 3

\* the fills drawn: two symbols, both directions, quantities in shares
FillSymbols == {Symbol, "TCS.NS"}
FillQuantities == {1, LotSize}
FillPrice == 100 * Scale

\* a fresh Portfolio, about to be handed fills
InitPortfolio ==
    /\ Constructed("on_fill", <<>>, <<>>, "BuyAndHold")
    /\ other = NoOther

\* a call of Portfolio.on_fill with any fill of positive quantity
OnFillCall ==
    /\ pc = "on_fill"
    /\ Len(fills) < MaxFills
    /\ \E symbol \in FillSymbols, direction \in {"BUY", "SELL"},
          quantity \in FillQuantities :
          LET fill == FillEvent(0, symbol, direction, quantity, FillPrice, 0, 0)
          IN /\ cash' = OnFillCash(cash, fill)
             /\ positions' = OnFillPositions(positions, fill)
             /\ fills' = Append(fills, fill)
    /\ UNCHANGED <<data, cursor, queue, pc, timestamp, bar_data, event,
                   initial_capital, commission_rate, slippage_pct, strategy, bought,
                   trade_log, signal_log, equity_curve, report, pushed, popped,
                   emitted, stats_runs, returned, run, other>>

PortfolioSpec == InitPortfolio /\ [][OnFillCall]_vars

\* the effect of the fill just applied on the positions
FillUpdatesPosition ==
    fills' # fills =>
        LET fill == Last(fills')
        IN /\ fill.direction = "BUY" =>
                 /\ fill.symbol \in DOMAIN positions'
                 /\ positions'[fill.symbol] = Get(positions, fill.symbol) + fill.quantity
           /\ fill.direction = "SELL" => fill.symbol \notin DOMAIN positions'
           /\ \A s \in FillSymbols \ {fill.symbol} :
                 /\ s \in DOMAIN positions' <=> s \in DOMAIN positions
                 /\ Get(positions', s) = Get(positions, s)

\* C19: on_fill adds the fill quantity to the symbol's position on BUY
\* (creating it if absent) and removes the position on SELL whatever the
\* quantity; positions of other symbols are unchanged, and after any
\* sequence of fills every recorded position is a strictly positive count.
PositionUpdateOnFill ==
    /\ [][FillUpdatesPosition]_vars
    /\ [](\A s \in DOMAIN positions : positions[s] > 0)
    /\ [](DOMAIN positions \subseteq FillSymbols)

PositionUpdateOnFillWitness ==
    /\ Len(fills) = 3
    /\ fills[1].direction = "BUY" /\ fills[1].symbol = Symbol
    /\ fills[1].quantity = LotSize
    /\ fills[2].direction = "BUY" /\ fills[2].symbol = "TCS.NS"
    /\ fills[3].direction = "SELL" /\ fills[3].symbol = Symbol
    /\ fills[3].quantity = 1
    /\ DOMAIN positions = {"TCS.NS"}

\* ======================================================================
\* SELL orders and fills against the position held
\* ======================================================================
\* a SELL Order is emitted for the whole position held when its EXIT signal
\* is handled
SellOrderForWholePosition ==
    (pc = "on_signal" /\ event.signal_type = "EXIT" /\ queue' # queue) =>
        /\ Last(queue').direction = "SELL"
        /\ Last(queue').quantity = Get(positions, event.symbol)

\* a SELL Fill is applied to a position of exactly its quantity
SellFillForWholePosition ==
    (fills' # fills /\ Last(fills').direction = "SELL") =>
        /\ Last(fills').quantity = Get(positions, Last(fills').symbol)
        /\ cash' - cash <= Get(positions, Last(fills').symbol) * Last(fills').fill_price

\* C20: every SELL Order emitted for an EXIT signal has the quantity of the
\* position held when the signal is handled, and every SELL Fill, when
\* Portfolio.on_fill applies it, has the quantity of the position then held,
\* so cash is never credited for shares that are not held.
SellClosesWhatIsHeld == [][SellOrderForWholePosition /\ SellFillForWholePosition]_vars

\* ======================================================================
\* What handling a Signal may change
\* ======================================================================
\* the step in which Portfolio.on_signal handles the Signal in hand
OnSignalStep == pc = "on_signal" /\ pc' # pc

\* the Signal whose handling has just finished
SignalJustHandled(type) ==
    /\ pc = "drain"
    /\ event = NoEvent
    /\ popped # <<>>
    /\ Last(popped).type = "SIGNAL"
    /\ Last(popped).signal_type = type

\* C21: Portfolio.on_signal changes neither cash nor positions, whatever the
\* signal type: they change only in the step in which on_fill is applied to a
\* Fill; and for a SHORT signal on_signal puts nothing on the queue.
SignalHandlingFrame ==
    /\ [][OnSignalStep => cash' = cash /\ positions' = positions]_vars
    /\ [][(cash' # cash \/ positions' # positions)
             => /\ Popping("FILL")
                /\ fills' = Append(fills, Head(queue))
                /\ cash' = OnFillCash(cash, Head(queue))]_vars
    /\ [][(OnSignalStep /\ event.signal_type = "SHORT")
             => queue' = queue /\ pushed' = pushed]_vars

SignalHandlingFrameWitness ==
    /\ SignalJustHandled("SHORT")
    /\ positions # <<>>
    /\ cash # initial_capital
    /\ \E i \in 1..Len(popped) : popped[i].type = "ORDER"

\* ======================================================================
\* Size of the open position
\* ======================================================================
\* BUY orders queued or in execution whose Fill has not reached the Portfolio
BuyOrdersPending ==
    Cardinality({i \in 1..Len(queue) :
                    queue[i].type \in {"ORDER", "FILL"} /\ queue[i].direction = "BUY"})

\* C22: whatever signals the strategy emits, the position of a symbol is flat
\* or exactly the lot size: no BUY order is emitted for a symbol while a BUY
\* for it is pending or its position is open.
SingleOpenLot ==
    /\ \A s \in DOMAIN positions : positions[s] = LotSize
    /\ BuyOrdersPending + (IF Symbol \in DOMAIN positions THEN 1 ELSE 0) <= 1

\* ======================================================================
\* The reconstructed curve against the Portfolio
\* ======================================================================
\* every price and commission of the run is written to the ledger exactly
ExactlyLogged ==
    \A i \in 1..Len(fills) :
        /\ Fmt2(fills[i].fill_price) = fills[i].fill_price
        /\ Fmt2(fills[i].commission) = fills[i].commission

\* C23: when every price and commission is exactly representable in the
\* ledger, the cash at the last timestamp of the reconstructed equity curve
\* equals Portfolio.cash at the end of the run: a SELL trade changes the
\* reconstructed cash by price * quantity - commission, as on_fill does.
StatisticsCashAgrees ==
    (pc = "done" /\ Len(data) >= 1 /\ ExactlyLogged) =>
        Last(equity_curve).Cash = cash

\* C24: the holdings quantity at the last timestamp of the reconstructed
\* equity curve equals the Portfolio's position for the symbol at the end of
\* the run (0 when flat), and no row of the curve holds a negative quantity.
StatisticsHoldingsAgree ==
    (pc = "done" /\ Len(data) >= 1) =>
        /\ Last(equity_curve).Holdings_Qty = Get(positions, Symbol)
        /\ \A i \in 1..Len(equity_curve) :
              \/ equity_curve[i].Holdings_Qty = NaN
              \/ equity_curve[i].Holdings_Qty >= 0

====
